---- MODULE Spec2Model ----
(***************************************************************************)
(* Customer profile and cart consistency engine of the storefront:        *)
(* FirebaseProfileManager / OfflineProfileManager (profile, cart,         *)
(* wishlist, history buffers), the debounced write-back, the Remote       *)
(* Profile Store, the Local Cache and the guest <-> registered            *)
(* transitions driven by the Identity Provider.                           *)
(*                                                                         *)
(* Scheduling model: JavaScript runs one task at a time, so every         *)
(* action below is the code between two suspension points (an await on    *)
(* the Remote Profile Store or the Identity Provider, or a timer).  A     *)
(* remote write takes effect where it is issued (writes of one client     *)
(* are applied in issue order); the caller resumes in a later action.     *)
(* A remote read returns the document as it is when the caller resumes.   *)
(*                                                                         *)
(* Abstractions: a profile keeps the fields the properties speak about;   *)
(* personal_info, preferences, metadata, created_at and the per-line      *)
(* timestamps are left out.  Prices are integer cents.                    *)
(***************************************************************************)
EXTENDS Integers, Sequences, FiniteSets, TLC

VARIABLES
    variant,                \* which Profile Manager FirebaseManager.initialize installed
    now,                    \* the clock read by new Date()
    currentProfile,         \* profileManager.currentProfile
    remote,                 \* Remote Profile Store: collection user_profiles, by document id
    localGuest,             \* Local Cache entry guest_profile_<session_id>
    offlineStore,           \* Local Cache entry offline_profile
    batchUpdateScheduled,   \* FirebaseProfileManager.batchUpdateScheduled
    timersArmed,            \* debounce timers set and not yet fired
    timerWrites,            \* timer callbacks suspended at their remote write
    authUser,               \* auth.currentUser
    accounts,               \* accounts that exist at the Identity Provider
    hac,                    \* the running handleAuthChange call
    conv,                   \* the running convertGuestToRegistered call
    lastDone,               \* what the last step completed or logged, if anything
    ops,                    \* mutating operations called so far
    localCart,              \* ProfileAwareCartManager.localCart, the Cart Projection
    checkout,               \* the running proceedToCheckout call
    boot,                   \* application startup: initializeApp and FirebaseManager.initialize
    twin,                   \* the profile of an OfflineProfileManager given the same calls
    fm,                     \* FirebaseManager.currentProfile
    authWait,               \* the promise, timer and listener of waitForInitialAuthState
    owner                   \* the id of the profile whose mutation armed the debounce timer

vars == <<variant, now, currentProfile, remote, localGuest, offlineStore,
          batchUpdateScheduled, timersArmed, timerWrites, authUser, accounts,
          hac, conv, lastDone, ops, localCart, checkout, boot, twin, fm, authWait,
          owner>>

----------------------------------------------------------------------------
(* Bounds of the model *)

\* mutating operations (cart, wishlist, purchase) called in one run of Spec
MaxOps == 2
\* largest quantity a cart line is driven to
MaxQty == 2
\* cart clears with a non-empty cart explored per profile in Spec
MaxClears == 1
\* purchases explored per profile
MaxPurchases == 1
\* wishlist operations called in one run of SpecWishlist
MaxWishOps == 3
\* calls explored in SpecTrack and SpecAbandon beyond the size of the buffer
ExtraCalls == 2

(* Program constants *)

\* analytics.events keeps the last 1000 entries
EVENTS_MAX == 1000
\* browsing.page_views keeps the last 500 entries
PAGE_VIEWS_MAX == 500
\* browsing.product_views keeps the last 100 entries
PRODUCT_VIEWS_MAX == 100
\* shopping.abandoned_carts keeps the last 10 entries
ABANDONED_MAX == 10

----------------------------------------------------------------------------
(* Values *)

None == "none"

\* no document under an id, no entry under a key
NoDoc == [exists |-> FALSE]

\* the catalog (global `products`), fixed for a run
products == << [id |-> "sku-1", price |-> 999], [id |-> "sku-2", price |-> 2500] >>

\* product ids the customer can name; "gone" is no longer in the catalog
ProductIds == {"sku-1", "sku-2", "gone"}
CatalogIds == {"sku-1", "sku-2"}

\* the one browser session: guest_<session_id>
GuestId == "guest_s1"
\* identifiers the Identity Provider hands out
Users == {"u1"}
DocIds == {GuestId} \cup Users

RECURSIVE SumSeq(_)
SumSeq(s) == IF s = <<>> THEN 0 ELSE Head(s) + SumSeq(Tail(s))

\* Array.prototype.slice(-n)
SliceLast(s, n) == IF Len(s) <= n THEN s ELSE SubSeq(s, Len(s) - n + 1, Len(s))

\* Array.prototype.find(item => item.product_id === productId), as an index (0: undefined)
FindProduct(items, productId) ==
    IF \E i \in 1..Len(items) : items[i].product_id = productId
    THEN CHOOSE i \in 1..Len(items) :
            /\ items[i].product_id = productId
            /\ \A j \in 1..(i - 1) : items[j].product_id # productId
    ELSE 0

\* created_at is left out; updated_at is the clock's reading
createBaseProfile(profileId, profileType) ==
    [ id |-> profileId,
      type |-> profileType,
      updated_at |-> now,
      cart |-> [items |-> <<>>, total |-> 0],
      wishlist |-> <<>>,
      purchase_history |-> <<>>,
      abandoned_carts |-> <<>>,
      page_views |-> <<>>,
      product_views |-> <<>>,
      events |-> <<>>,
      converted_from_guest |-> None ]

----------------------------------------------------------------------------
(* The mutations of the in-memory profile, FirebaseProfileManager *)

\* the price the catalog gives a cart line, 0 when products.find finds nothing
LinePrice(item) ==
    IF \E i \in 1..Len(products) : products[i].id = item.product_id
    THEN LET i == CHOOSE i \in 1..Len(products) : products[i].id = item.product_id
         IN  products[i].price * item.quantity
    ELSE 0

\* updateCartTotal summing the unit prices, whatever the quantities
updateCartTotal_unit(profile) ==
    [profile EXCEPT !.cart.total =
        SumSeq([i \in 1..Len(profile.cart.items) |->
                   LinePrice([profile.cart.items[i] EXCEPT !.quantity = 1])])]

updateCartTotal(profile) ==
    [profile EXCEPT !.cart.total =
        SumSeq([i \in 1..Len(profile.cart.items) |-> LinePrice(profile.cart.items[i])])]

\* addToCart without the search for an existing line
addToCart_push(profile, productId, quantity) ==
    updateCartTotal([profile EXCEPT !.cart.items =
                        Append(@, [product_id |-> productId, quantity |-> quantity])])

addToCart(profile, productId, quantity) ==
    LET items == profile.cart.items
        i == FindProduct(items, productId)
    IN  updateCartTotal(
          IF i # 0
          THEN [profile EXCEPT !.cart.items[i].quantity = @ + quantity]
          ELSE [profile EXCEPT !.cart.items =
                   Append(items, [product_id |-> productId, quantity |-> quantity])])

removeFromCart(profile, productId) ==
    LET Keep(item) == item.product_id # productId
    IN  updateCartTotal([profile EXCEPT !.cart.items = SelectSeq(@, Keep)])

updateCartQuantity(profile, productId, quantity) ==
    LET i == FindProduct(profile.cart.items, productId)
    IN  IF i = 0 THEN profile
        ELSE IF quantity <= 0 THEN removeFromCart(profile, productId)
        ELSE updateCartTotal([profile EXCEPT !.cart.items[i].quantity = quantity])

\* clearCart keeping the first ABANDONED_MAX entries
clearCart_oldest(profile, t) ==
    LET saved ==
          IF Len(profile.cart.items) > 0
          THEN LET pushed == Append(profile.abandoned_carts,
                                    [items |-> profile.cart.items,
                                     total |-> profile.cart.total,
                                     abandoned_at |-> t])
               IN  IF Len(pushed) > ABANDONED_MAX
                   THEN SubSeq(pushed, 1, ABANDONED_MAX) ELSE pushed
          ELSE profile.abandoned_carts
    IN  [profile EXCEPT !.abandoned_carts = saved,
                        !.cart = [items |-> <<>>, total |-> 0]]

clearCart(profile, t) ==
    LET saved ==
          IF Len(profile.cart.items) > 0
          THEN LET pushed == Append(profile.abandoned_carts,
                                    [items |-> profile.cart.items,
                                     total |-> profile.cart.total,
                                     abandoned_at |-> t])
               IN  IF Len(pushed) > ABANDONED_MAX
                   THEN SliceLast(pushed, ABANDONED_MAX) ELSE pushed
          ELSE profile.abandoned_carts
    IN  [profile EXCEPT !.abandoned_carts = saved,
                        !.cart = [items |-> <<>>, total |-> 0]]

addToWishlist(profile, productId) ==
    IF \E i \in 1..Len(profile.wishlist) : profile.wishlist[i].product_id = productId
    THEN profile
    ELSE [profile EXCEPT !.wishlist = Append(@, [product_id |-> productId])]

removeFromWishlist(profile, productId) ==
    LET Keep(item) == item.product_id # productId
    IN  [profile EXCEPT !.wishlist = SelectSeq(@, Keep)]

addPurchase(profile, orderId, t) ==
    clearCart([profile EXCEPT !.purchase_history = Append(@, [order_id |-> orderId])], t)

\* trackAction keeping the first EVENTS_MAX entries
trackAction_oldest(profile, action, t) ==
    LET pushed == Append(profile.events, [action |-> action, timestamp |-> t])
    IN  [profile EXCEPT !.updated_at = t,
                        !.events =
            IF Len(pushed) > EVENTS_MAX THEN SubSeq(pushed, 1, EVENTS_MAX) ELSE pushed]

trackAction(profile, action, t) ==
    LET pushed == Append(profile.events, [action |-> action, timestamp |-> t])
    IN  [profile EXCEPT !.updated_at = t,
                        !.events =
            IF Len(pushed) > EVENTS_MAX THEN SliceLast(pushed, EVENTS_MAX) ELSE pushed]

trackPageView(profile, pageName, t) ==
    LET pushed == Append(profile.page_views, [page |-> pageName, timestamp |-> t])
    IN  [profile EXCEPT !.page_views =
            IF Len(pushed) > PAGE_VIEWS_MAX THEN SliceLast(pushed, PAGE_VIEWS_MAX) ELSE pushed]

trackProductView(profile, productId, t) ==
    LET pushed == Append(profile.product_views, [product_id |-> productId, timestamp |-> t])
    IN  [profile EXCEPT !.product_views =
            IF Len(pushed) > PRODUCT_VIEWS_MAX
            THEN SliceLast(pushed, PRODUCT_VIEWS_MAX) ELSE pushed]


\* mergeGuestData appending the whole guest wishlist
mergeGuestData_concat(registeredProfile, guestProfile) ==
    [registeredProfile EXCEPT
          !.cart = IF Len(guestProfile.cart.items) > 0 THEN guestProfile.cart ELSE @,
          !.wishlist = @ \o guestProfile.wishlist,
          !.page_views = @ \o guestProfile.page_views,
          !.product_views = @ \o guestProfile.product_views,
          !.events = @ \o guestProfile.events]

\* mergeGuestData taking the guest cart even when it is empty
mergeGuestData_always(registeredProfile, guestProfile) ==
    LET NotInRegistered(item) ==
          \A i \in 1..Len(registeredProfile.wishlist) :
              registeredProfile.wishlist[i].product_id # item.product_id
    IN  [registeredProfile EXCEPT
          !.cart = guestProfile.cart,
          !.wishlist = IF Len(guestProfile.wishlist) > 0
                       THEN @ \o SelectSeq(guestProfile.wishlist, NotInRegistered)
                       ELSE @,
          !.page_views = @ \o guestProfile.page_views,
          !.product_views = @ \o guestProfile.product_views,
          !.events = @ \o guestProfile.events]

mergeGuestData(registeredProfile, guestProfile) ==
    LET NotInRegistered(item) ==
          \A i \in 1..Len(registeredProfile.wishlist) :
              registeredProfile.wishlist[i].product_id # item.product_id
    IN  [registeredProfile EXCEPT
          !.cart = IF Len(guestProfile.cart.items) > 0 THEN guestProfile.cart ELSE @,
          !.wishlist = IF Len(guestProfile.wishlist) > 0
                       THEN @ \o SelectSeq(guestProfile.wishlist, NotInRegistered)
                       ELSE @,
          !.page_views = @ \o guestProfile.page_views,
          !.product_views = @ \o guestProfile.product_views,
          !.events = @ \o guestProfile.events]

\* the registered profile convertGuestToRegistered builds from the guest profile
registeredProfile(guestProfile, uid) ==
    [guestProfile EXCEPT !.id = uid,
                         !.type = "registered",
                         !.updated_at = now,
                         !.converted_from_guest = guestProfile.id]

----------------------------------------------------------------------------
(* The Remote Profile Store *)

\* doc(id).set(data): the document becomes data
SetDoc(store, id, data) == [store EXCEPT ![id] = data]

\* doc(id).set(data, {merge: true}): the fields of data overwrite the document's,
\* a field data does not carry (converted_from_guest) keeps the document's value
SetMerge(store, id, data) ==
    [store EXCEPT ![id] =
        IF @ = NoDoc \/ data.converted_from_guest # None THEN data
        ELSE [data EXCEPT !.converted_from_guest = store[id].converted_from_guest]]

\* doc(id).update(data) fails when there is no document
CanUpdate(store, id) == store[id] # NoDoc

\* doc(id).delete()
DeleteDoc(store, id) == [store EXCEPT ![id] = NoDoc]

----------------------------------------------------------------------------
(* The mutations of the in-memory profile, OfflineProfileManager *)

offlineUpdateCartTotal(profile) ==
    [profile EXCEPT !.cart.total =
        SumSeq([i \in 1..Len(profile.cart.items) |-> LinePrice(profile.cart.items[i])])]

offlineAddToCart(profile, productId, quantity) ==
    LET items == profile.cart.items
        i == FindProduct(items, productId)
    IN  offlineUpdateCartTotal(
          IF i # 0
          THEN [profile EXCEPT !.cart.items[i].quantity = @ + quantity]
          ELSE [profile EXCEPT !.cart.items =
                   Append(items, [product_id |-> productId, quantity |-> quantity])])

\* removeFromCart that leaves the total as it was
offlineRemoveFromCart_stale(profile, productId) ==
    LET Keep(item) == item.product_id # productId
    IN  [profile EXCEPT !.cart.items = SelectSeq(@, Keep)]

offlineRemoveFromCart(profile, productId) ==
    LET Keep(item) == item.product_id # productId
    IN  offlineUpdateCartTotal([profile EXCEPT !.cart.items = SelectSeq(@, Keep)])

offlineUpdateCartQuantity(profile, productId, quantity) ==
    LET i == FindProduct(profile.cart.items, productId)
    IN  IF i = 0 THEN profile
        ELSE IF quantity <= 0 THEN offlineRemoveFromCart(profile, productId)
        ELSE offlineUpdateCartTotal([profile EXCEPT !.cart.items[i].quantity = quantity])

offlineClearCart(profile, t) ==
    LET saved ==
          IF Len(profile.cart.items) > 0
          THEN LET pushed == Append(profile.abandoned_carts,
                                    [items |-> profile.cart.items,
                                     total |-> profile.cart.total,
                                     abandoned_at |-> t])
               IN  IF Len(pushed) > ABANDONED_MAX
                   THEN SliceLast(pushed, ABANDONED_MAX) ELSE pushed
          ELSE profile.abandoned_carts
    IN  [profile EXCEPT !.abandoned_carts = saved,
                        !.cart = [items |-> <<>>, total |-> 0]]

offlineAddToWishlist(profile, productId) ==
    IF \E i \in 1..Len(profile.wishlist) : profile.wishlist[i].product_id = productId
    THEN profile
    ELSE [profile EXCEPT !.wishlist = Append(@, [product_id |-> productId])]

offlineRemoveFromWishlist(profile, productId) ==
    LET Keep(item) == item.product_id # productId
    IN  [profile EXCEPT !.wishlist = SelectSeq(@, Keep)]

offlineAddPurchase(profile, orderId, t) ==
    offlineClearCart(
        [profile EXCEPT !.purchase_history = Append(@, [order_id |-> orderId])], t)

offlineTrackAction(profile, action, t) ==
    LET pushed == Append(profile.events, [action |-> action, timestamp |-> t])
    IN  [profile EXCEPT !.updated_at = t,
                        !.events =
            IF Len(pushed) > EVENTS_MAX THEN SliceLast(pushed, EVENTS_MAX) ELSE pushed]

offlineTrackPageView(profile, pageName, t) ==
    LET pushed == Append(profile.page_views, [page |-> pageName, timestamp |-> t])
    IN  [profile EXCEPT !.page_views =
            IF Len(pushed) > PAGE_VIEWS_MAX THEN SliceLast(pushed, PAGE_VIEWS_MAX) ELSE pushed]

offlineTrackProductView(profile, productId, t) ==
    LET pushed == Append(profile.product_views, [product_id |-> productId, timestamp |-> t])
    IN  [profile EXCEPT !.product_views =
            IF Len(pushed) > PRODUCT_VIEWS_MAX
            THEN SliceLast(pushed, PRODUCT_VIEWS_MAX) ELSE pushed]

----------------------------------------------------------------------------
(* State after construction *)

\* a handleAuthChange call: where it waits, the identity it was called with, the
\* profile it is loading, and what loadRegisteredProfile and mergeGuestData read
\* (`loaded`: the registered profile before the merge, `guest`: the guest data)
HacIdle == [pc |-> "idle", user |-> None, profile |-> NoDoc, ok |-> TRUE,
            loaded |-> NoDoc, guest |-> NoDoc]

\* a convertGuestToRegistered call: where it waits, the new identity, the id of the
\* profile it copied, whether the guest document was deleted, and the copied
\* object (`alias`: it is still the current profile, else `detached` holds it)
ConvIdle == [pc |-> "idle", user |-> None, guestId |-> None, ok |-> TRUE,
             deleted |-> FALSE, alias |-> FALSE, detached |-> NoDoc]

NoWrites == [ok |-> 0, failed |-> 0]

\* a proceedToCheckout call: where it waits and how the call it waits for ends
CheckoutIdle == [pc |-> "idle", outcome |-> None]

\* startup is over: the page runs, the Local Cache works, nothing failed
Booted == [pc |-> "started", cache |-> "ok", failure |-> None]

\* FirebaseManager.currentProfile: the object the Profile Manager's currentProfile
\* is (`alias`), or another one (`detached`; NoDoc: null); `pending`: the
\* continuation that will assign it next
FmSame == [alias |-> TRUE, detached |-> NoDoc, pending |-> None]
FmNull == [alias |-> FALSE, detached |-> NoDoc, pending |-> None]

\* waitForInitialAuthState: its timer, whether its listener is subscribed, how
\* often resolve was called
WaitUnset == [timer |-> "unset", subscribed |-> FALSE, resolved |-> 0]
WaitArmed == [timer |-> "armed", subscribed |-> TRUE, resolved |-> 0]
WaitOver == [timer |-> "cleared", subscribed |-> FALSE, resolved |-> 1]

\* FirebaseManager.initialize with nobody signed in: loadGuestProfile finds no Local
\* Cache entry, creates the guest profile, caches it and writes it to the Remote
\* Profile Store.  On failure of the initialization the OfflineProfileManager
\* creates a local profile and saves it.  An account may exist at the Identity
\* Provider from an earlier visit.
\* Remote failures are explored where the code acts on them or the debounce is
\* involved (reads, createRegisteredProfile's set, the conversion's calls, the
\* debounced write); the writes whose failure is only logged (the guest profile's
\* first write and sync, mergeGuestData's update of an existing document) succeed.
Init ==
    /\ variant \in {"firebase", "offline"}
    /\ now = 0
    /\ authUser = None
    /\ accounts \in SUBSET Users
    /\ hac = HacIdle
    /\ conv = ConvIdle
    /\ lastDone = None
    /\ ops = 0
    /\ batchUpdateScheduled = FALSE
    /\ timersArmed = 0
    /\ timerWrites = NoWrites
    /\ localCart = <<>>
    /\ checkout = CheckoutIdle
    /\ boot = Booted
    /\ twin = NoDoc
    /\ fm = FmSame
    /\ authWait = WaitOver
    /\ owner = None
    /\ IF variant = "firebase"
       THEN /\ currentProfile = createBaseProfile(GuestId, "guest")
            /\ localGuest = currentProfile
            /\ offlineStore = NoDoc
            /\ remote = [id \in DocIds |->
                          IF id = GuestId THEN currentProfile ELSE NoDoc]
       ELSE /\ currentProfile = createBaseProfile("profile_1", "guest")
            /\ localGuest = NoDoc
            /\ offlineStore = currentProfile
            /\ remote = [id \in DocIds |-> NoDoc]

----------------------------------------------------------------------------
(* Persistence after a mutation *)

\* batchUpdateProfile without the test of the flag: every call arms a timer
batchUpdateProfile_always ==
    /\ batchUpdateScheduled' = TRUE
    /\ timersArmed' = timersArmed + 1

\* FirebaseProfileManager.batchUpdateProfile: arm the debounce timer unless one is
\* already scheduled
batchUpdateProfile ==
    IF batchUpdateScheduled
    THEN UNCHANGED <<batchUpdateScheduled, timersArmed>>
    ELSE /\ batchUpdateScheduled' = TRUE
         /\ timersArmed' = timersArmed + 1

\* OfflineProfileManager.saveProfile
saveProfile == offlineStore' = currentProfile'

\* a mutating operation: memory first, then the variant's persistence
Apply(firebaseResult, offlineResult) ==
    /\ IF variant = "firebase"
       THEN /\ currentProfile' = firebaseResult
            /\ batchUpdateProfile
            /\ UNCHANGED offlineStore
       ELSE /\ currentProfile' = offlineResult
            /\ saveProfile
            /\ UNCHANGED <<batchUpdateScheduled, timersArmed>>
    /\ lastDone' = None
    /\ UNCHANGED <<variant, remote, localGuest, timerWrites, authUser, accounts,
                   hac, conv>>

LineQuantity(profile, productId) ==
    LET i == FindProduct(profile.cart.items, productId)
    IN  IF i = 0 THEN 0 ELSE profile.cart.items[i].quantity

----------------------------------------------------------------------------
(* Operations of the Profile Manager *)

\* The operations leave the clock to the specification: Spec freezes it, the
\* specifications of the history buffers advance it by one per call.

AddToCart(productId, quantity) ==
    /\ LineQuantity(currentProfile, productId) + quantity <= MaxQty
    /\ Apply(addToCart(currentProfile, productId, quantity),
             offlineAddToCart(currentProfile, productId, quantity))

RemoveFromCart(productId) ==
    /\ Apply(removeFromCart(currentProfile, productId),
             offlineRemoveFromCart(currentProfile, productId))

\* without a line for productId the call returns at once
UpdateCartQuantity(productId, quantity) ==
    /\ FindProduct(currentProfile.cart.items, productId) # 0
    /\ Apply(updateCartQuantity(currentProfile, productId, quantity),
             offlineUpdateCartQuantity(currentProfile, productId, quantity))

\* `more` bounds how many abandoned carts a run collects
ClearCart(more) ==
    /\ Len(currentProfile.cart.items) = 0 \/ more
    /\ Apply(clearCart(currentProfile, now), offlineClearCart(currentProfile, now))

\* with productId on the wishlist already the call returns at once
AddToWishlist(productId) ==
    /\ \A i \in 1..Len(currentProfile.wishlist) :
          currentProfile.wishlist[i].product_id # productId
    /\ Apply(addToWishlist(currentProfile, productId),
             offlineAddToWishlist(currentProfile, productId))

RemoveFromWishlist(productId) ==
    /\ Apply(removeFromWishlist(currentProfile, productId),
             offlineRemoveFromWishlist(currentProfile, productId))

\* addPurchase: clearCart schedules the write, the second batchUpdateProfile finds
\* it scheduled
AddPurchase(orderId, more) ==
    /\ Len(currentProfile.purchase_history) < MaxPurchases
    /\ Len(currentProfile.cart.items) = 0 \/ more
    /\ Apply(addPurchase(currentProfile, orderId, now),
             offlineAddPurchase(currentProfile, orderId, now))

TrackAction(action) ==
    Apply(trackAction(currentProfile, action, now),
          offlineTrackAction(currentProfile, action, now))

TrackPageView(pageName) ==
    Apply(trackPageView(currentProfile, pageName, now),
          offlineTrackPageView(currentProfile, pageName, now))

TrackProductView(productId) ==
    Apply(trackProductView(currentProfile, productId, now),
          offlineTrackProductView(currentProfile, productId, now))

----------------------------------------------------------------------------
(* The debounce timer of batchUpdateProfile *)

\* the timer fires: the callback issues set(currentProfile, {merge: true}) under
\* the id of the profile that is current now, and waits for it
TimerFire ==
    /\ timersArmed > 0
    /\ timersArmed' = timersArmed - 1
    /\ \E ok \in BOOLEAN :
         /\ remote' = IF ok THEN SetMerge(remote, currentProfile.id, currentProfile)
                      ELSE remote
         /\ timerWrites' = IF ok THEN [timerWrites EXCEPT !.ok = @ + 1]
                           ELSE [timerWrites EXCEPT !.failed = @ + 1]
    /\ lastDone' = None
    /\ UNCHANGED <<variant, currentProfile, localGuest, offlineStore,
                   batchUpdateScheduled, authUser, accounts, hac, conv>>

\* the write succeeded: a guest profile is cached, the flag is cleared
TimerWriteDone ==
    /\ timerWrites.ok > 0
    /\ timerWrites' = [timerWrites EXCEPT !.ok = @ - 1]
    /\ localGuest' = IF currentProfile.type = "guest" THEN currentProfile ELSE localGuest
    /\ batchUpdateScheduled' = FALSE
    /\ lastDone' = None
    /\ UNCHANGED <<variant, currentProfile, remote, offlineStore, timersArmed,
                   authUser, accounts, hac, conv>>

\* a callback whose failed write leaves the flag set
TimerWriteFailed_flagKept ==
    /\ timerWrites.failed > 0
    /\ timerWrites' = [timerWrites EXCEPT !.failed = @ - 1]
    /\ lastDone' = "write_failed"
    /\ UNCHANGED <<variant, currentProfile, remote, localGuest, offlineStore,
                   batchUpdateScheduled, timersArmed, authUser, accounts, hac, conv>>

\* the write failed: the error is logged, the flag is cleared
TimerWriteFailed ==
    /\ timerWrites.failed > 0
    /\ timerWrites' = [timerWrites EXCEPT !.failed = @ - 1]
    /\ batchUpdateScheduled' = FALSE
    /\ lastDone' = "write_failed"
    /\ UNCHANGED <<variant, currentProfile, remote, localGuest, offlineStore,
                   timersArmed, authUser, accounts, hac, conv>>

----------------------------------------------------------------------------
(* handleAuthChange, called by the listener of setupAuthStateListener *)

\* loadGuestProfile up to its remote write
loadGuestProfile ==
    IF localGuest # NoDoc
    THEN /\ remote' = SetMerge(remote, localGuest.id, localGuest)
         /\ hac' = [HacIdle EXCEPT !.pc = "lg_sync", !.profile = localGuest]
         /\ UNCHANGED localGuest
    ELSE LET profile == createBaseProfile(GuestId, "guest")
         IN  /\ localGuest' = profile
             /\ remote' = SetDoc(remote, GuestId, profile)
             /\ hac' = [HacIdle EXCEPT !.pc = "lg_set", !.profile = profile]

\* The Identity Provider reports an identity change to the listener at once, and
\* the listener calls handleAuthChange(user), which runs up to its first remote
\* call.  The listener does not wait for an earlier call: with a guest profile and
\* no identity, or a registered profile and an identity, the call returns at
\* once whatever else is running.  One loading call runs at a time: the customer
\* does not cause a second one while the first is waiting.
handleAuthChange(user) ==
    IF user # None /\ currentProfile.type = "guest"
    THEN /\ hac.pc = "idle"
         /\ \E ok \in BOOLEAN :
              hac' = [HacIdle EXCEPT !.pc = "lr_get", !.user = user, !.ok = ok]
         /\ UNCHANGED <<remote, localGuest>>
    ELSE IF user = None /\ currentProfile.type = "registered"
    THEN /\ hac.pc = "idle"
         /\ loadGuestProfile
    ELSE UNCHANGED <<hac, remote, localGuest>>

\* FirebaseManager.signInUser: the provider signs the account in
SignIn(u) ==
    /\ variant = "firebase"
    /\ u \in accounts
    /\ authUser = None
    /\ authUser' = u
    /\ handleAuthChange(u)
    /\ lastDone' = None
    /\ UNCHANGED <<variant, currentProfile, offlineStore, batchUpdateScheduled,
                   timersArmed, timerWrites, accounts, conv>>

\* FirebaseManager.signOutUser
SignOut ==
    /\ variant = "firebase"
    /\ authUser # None
    /\ authUser' = None
    /\ handleAuthChange(None)
    /\ lastDone' = None
    /\ UNCHANGED <<variant, currentProfile, offlineStore, batchUpdateScheduled,
                   timersArmed, timerWrites, accounts, conv>>

\* loadRegisteredProfile: the read failed, the error reaches the listener
LoadRegisteredFailed ==
    /\ hac.pc = "lr_get"
    /\ ~hac.ok
    /\ hac' = HacIdle
    /\ lastDone' = "signin_failed"
    /\ UNCHANGED <<variant, currentProfile, remote, localGuest, offlineStore,
                   batchUpdateScheduled, timersArmed, timerWrites, authUser, accounts,
                   conv>>

\* loadRegisteredProfile: the document exists; mergeGuestData runs up to its
\* update (which is followed by updateLastActive: the two awaits are one wait here)
LoadRegisteredFound ==
    /\ hac.pc = "lr_get"
    /\ hac.ok
    /\ remote[hac.user] # NoDoc
    /\ IF localGuest = NoDoc
       THEN /\ hac' = [hac EXCEPT !.pc = "lr_wait", !.profile = remote[hac.user],
                                  !.loaded = remote[hac.user]]
            /\ UNCHANGED <<remote, localGuest>>
       ELSE LET merged == mergeGuestData(remote[hac.user], localGuest)
            IN  /\ localGuest' = NoDoc
                /\ remote' = IF CanUpdate(remote, merged.id)
                             THEN SetDoc(remote, merged.id, merged) ELSE remote
                /\ hac' = [hac EXCEPT !.pc = "lr_wait", !.profile = merged,
                                      !.loaded = remote[hac.user], !.guest = localGuest]
    /\ lastDone' = None
    /\ UNCHANGED <<variant, currentProfile, offlineStore, batchUpdateScheduled,
                   timersArmed, timerWrites, authUser, accounts, conv>>

\* loadRegisteredProfile: no document; createRegisteredProfile runs mergeGuestData
\* (whose update finds no document and fails) or goes on to its set
LoadRegisteredMissing ==
    /\ hac.pc = "lr_get"
    /\ hac.ok
    /\ remote[hac.user] = NoDoc
    /\ LET profile == createBaseProfile(hac.user, "registered")
       IN  IF localGuest = NoDoc
           THEN /\ \E ok \in BOOLEAN :
                     /\ remote' = IF ok THEN SetDoc(remote, profile.id, profile) ELSE remote
                     /\ hac' = [hac EXCEPT !.pc = "cr_set", !.profile = profile,
                                           !.loaded = profile, !.ok = ok]
                /\ UNCHANGED localGuest
           ELSE /\ localGuest' = NoDoc
                /\ hac' = [hac EXCEPT !.pc = "cr_merge",
                                      !.profile = mergeGuestData(profile, localGuest),
                                      !.loaded = profile, !.guest = localGuest]
                /\ UNCHANGED remote
    /\ lastDone' = None
    /\ UNCHANGED <<variant, currentProfile, offlineStore, batchUpdateScheduled,
                   timersArmed, timerWrites, authUser, accounts, conv>>

\* createRegisteredProfile after mergeGuestData: set(profile)
CreateRegisteredSet ==
    /\ hac.pc = "cr_merge"
    /\ \E ok \in BOOLEAN :
         /\ remote' = IF ok
                      THEN SetDoc(remote, hac.profile.id, hac.profile) ELSE remote
         /\ hac' = [hac EXCEPT !.pc = "cr_set", !.ok = ok]
    /\ lastDone' = None
    /\ UNCHANGED <<variant, currentProfile, localGuest, offlineStore,
                   batchUpdateScheduled, timersArmed, timerWrites, authUser, accounts,
                   conv>>

\* createRegisteredProfile: its set failed, the error reaches the listener
CreateRegisteredFailed ==
    /\ hac.pc = "cr_set"
    /\ ~hac.ok
    /\ hac' = HacIdle
    /\ lastDone' = "signin_failed"
    /\ UNCHANGED <<variant, currentProfile, remote, localGuest, offlineStore,
                   batchUpdateScheduled, timersArmed, timerWrites, authUser, accounts,
                   conv>>

\* the object a running conversion copied stops being the current profile
Detached ==
    IF conv.alias THEN [conv EXCEPT !.alias = FALSE, !.detached = currentProfile]
    ELSE conv

\* handleAuthChange assigns the loaded profile to currentProfile
HandleAuthChangeReturn ==
    /\ \/ hac.pc \in {"lr_wait", "lg_sync", "lg_set"}
       \/ hac.pc = "cr_set" /\ hac.ok
    /\ currentProfile' = hac.profile
    /\ conv' = Detached
    /\ hac' = HacIdle
    /\ lastDone' = IF hac.user = None THEN "signout" ELSE "signin"
    /\ UNCHANGED <<variant, remote, localGuest, offlineStore, batchUpdateScheduled,
                   timersArmed, timerWrites, authUser, accounts>>

----------------------------------------------------------------------------
(* convertGuestToRegistered, called by FirebaseManager.signUpUser for a guest *)

\* the object the conversion copied: the current profile while it is still that
\* object (the copy is shallow, so shopping, browsing and analytics are shared)
ConvGuestProfile == IF conv.alias THEN currentProfile ELSE conv.detached

\* createUserWithEmailAndPassword is called; the provider creates the account,
\* signs it in and reports the identity change, or rejects the call
SignUp(u) ==
    /\ variant = "firebase"
    /\ conv.pc = "idle"
    /\ currentProfile.type = "guest"
    /\ \E ok \in BOOLEAN :
         /\ ok => u \notin accounts
         /\ conv' = [ConvIdle EXCEPT !.pc = "create", !.user = u, !.ok = ok]
         /\ accounts' = IF ok THEN accounts \cup {u} ELSE accounts
         /\ authUser' = IF ok THEN u ELSE authUser
         /\ IF ok THEN handleAuthChange(u) ELSE UNCHANGED <<hac, remote, localGuest>>
    /\ lastDone' = None
    /\ UNCHANGED <<variant, currentProfile, offlineStore, batchUpdateScheduled,
                   timersArmed, timerWrites>>

\* a catch block that also drops the guest's Local Cache entry
ConvertCreateFailed_cleanup ==
    /\ conv.pc = "create"
    /\ ~conv.ok
    /\ conv' = ConvIdle
    /\ localGuest' = NoDoc
    /\ lastDone' = "convert_create_failed"
    /\ UNCHANGED <<variant, currentProfile, remote, offlineStore,
                   batchUpdateScheduled, timersArmed, timerWrites, authUser, accounts,
                   hac>>

\* account creation failed: the error is thrown to the caller
ConvertCreateFailed ==
    /\ conv.pc = "create"
    /\ ~conv.ok
    /\ conv' = ConvIdle
    /\ lastDone' = "convert_create_failed"
    /\ UNCHANGED <<variant, currentProfile, remote, localGuest, offlineStore,
                   batchUpdateScheduled, timersArmed, timerWrites, authUser, accounts,
                   hac>>

\* the account exists: copy the current profile, delete the old guest document
\* (best effort)
ConvertDeleteGuest ==
    /\ conv.pc = "create"
    /\ conv.ok
    /\ \E ok \in BOOLEAN :
         /\ remote' = IF ok THEN DeleteDoc(remote, currentProfile.id) ELSE remote
         /\ conv' = [conv EXCEPT !.pc = "delete", !.guestId = currentProfile.id,
                                 !.deleted = ok, !.alias = TRUE]
    /\ lastDone' = None
    /\ UNCHANGED <<variant, currentProfile, localGuest, offlineStore,
                   batchUpdateScheduled, timersArmed, timerWrites, authUser, accounts,
                   hac>>

\* set(registeredProfile) under the new id
ConvertSetRegistered ==
    /\ conv.pc = "delete"
    /\ \E ok \in BOOLEAN :
         /\ remote' = IF ok
                      THEN SetDoc(remote, conv.user,
                                  registeredProfile(ConvGuestProfile, conv.user))
                      ELSE remote
         /\ conv' = [conv EXCEPT !.pc = "set", !.ok = ok]
    /\ lastDone' = None
    /\ UNCHANGED <<variant, currentProfile, localGuest, offlineStore,
                   batchUpdateScheduled, timersArmed, timerWrites, authUser, accounts,
                   hac>>

\* the set failed: the error is thrown to the caller
ConvertSetFailed ==
    /\ conv.pc = "set"
    /\ ~conv.ok
    /\ conv' = ConvIdle
    /\ lastDone' = "convert_set_failed"
    /\ UNCHANGED <<variant, currentProfile, remote, localGuest, offlineStore,
                   batchUpdateScheduled, timersArmed, timerWrites, authUser, accounts,
                   hac>>

\* the set succeeded: drop the Local Cache entry, swap currentProfile, track the
\* conversion (trackAction pushes the event and schedules the write)
ConvertFinish ==
    /\ conv.pc = "set"
    /\ conv.ok
    /\ localGuest' = NoDoc
    /\ currentProfile' = trackAction(registeredProfile(ConvGuestProfile, conv.user),
                                     "guest_converted_to_registered", now)
    /\ batchUpdateProfile
    /\ conv' = ConvIdle
    /\ lastDone' = IF conv.deleted THEN "converted" ELSE "converted_guest_kept"
    /\ UNCHANGED <<variant, remote, offlineStore, timerWrites, authUser, accounts,
                   hac>>

----------------------------------------------------------------------------
(* Specifications *)

\* The specifications up to SpecHistory are the Profile Manager's: its operations
\* are called on the manager itself, and the page's cart manager and checkout stay
\* as they were constructed.  SpecStore adds them.
store == <<localCart, checkout, boot, twin, fm, authWait, owner>>

\* a step that is no call of a mutating operation
Step(A) == A /\ UNCHANGED <<now, ops, store>>

\* a call of a mutating operation, within the run's budget
Call(A) == A /\ ops < MaxOps /\ ops' = ops + 1 /\ UNCHANGED <<now, store>>

\* the debounce timer and its write
Debounce ==
    \/ Step(TimerFire)
    \/ Step(TimerWriteDone)
    \/ Step(TimerWriteFailed)

\* sign-in, sign-out and handleAuthChange
Identity ==
    \/ \E u \in Users : Step(SignIn(u))
    \/ Step(SignOut)
    \/ Step(LoadRegisteredFailed)
    \/ Step(LoadRegisteredFound)
    \/ Step(LoadRegisteredMissing)
    \/ Step(CreateRegisteredSet)
    \/ Step(CreateRegisteredFailed)
    \/ Step(HandleAuthChangeReturn)

\* sign-up of a guest: convertGuestToRegistered
Conversion ==
    \/ \E u \in Users : Step(SignUp(u))
    \/ Step(ConvertCreateFailed)
    \/ Step(ConvertDeleteGuest)
    \/ Step(ConvertSetRegistered)
    \/ Step(ConvertSetFailed)
    \/ Step(ConvertFinish)

\* Spec: the cart and the identity transitions, the clock frozen.
Next ==
    \/ \E p \in CatalogIds : Call(AddToCart(p, 1))
    \/ \E p \in CatalogIds : Call(RemoveFromCart(p))
    \/ \E p \in CatalogIds, q \in 0..MaxQty : Call(UpdateCartQuantity(p, q))
    \/ Call(ClearCart(Len(currentProfile.abandoned_carts) < MaxClears))
    \/ Call(AddPurchase("order", Len(currentProfile.abandoned_carts) < MaxClears))
    \/ Debounce
    \/ Identity
    \/ Conversion

Spec == Init /\ [][Next]_vars

\* SpecCart: the cart operations alone, in both variants, over every product id
\* the customer can name.  The timer the first operation arms stays armed: its
\* callback reads the cart and does not change it, and its interleavings are Spec's.
NextCart ==
    \/ \E p \in ProductIds : Step(AddToCart(p, 1))
    \/ \E p \in ProductIds : Step(RemoveFromCart(p))
    \/ \E p \in ProductIds, q \in 0..MaxQty : Step(UpdateCartQuantity(p, q))
    \/ Step(ClearCart(Len(currentProfile.abandoned_carts) < MaxClears))

SpecCart == Init /\ [][NextCart]_vars

\* SpecWishlist: the wishlist and the identity transitions, the clock frozen.
WishCall(A) == A /\ ops < MaxWishOps /\ ops' = ops + 1 /\ UNCHANGED <<now, store>>

NextWishlist ==
    \/ \E p \in CatalogIds : WishCall(AddToWishlist(p))
    \/ \E p \in CatalogIds : WishCall(RemoveFromWishlist(p))
    \/ Debounce
    \/ Identity
    \/ Conversion

SpecWishlist == Init /\ [][NextWishlist]_vars

\* SpecAbandon: a cart given one line and cleared, again and again, in both
\* variants.  The clock ticks at every clearCart that finds lines, so abandoned_at
\* numbers the snapshots.
Abandon(A) ==
    /\ A
    /\ now < ABANDONED_MAX + ExtraCalls
    /\ now' = IF Len(currentProfile.cart.items) > 0 THEN now + 1 ELSE now
    /\ UNCHANGED <<ops, store>>

NextAbandon ==
    \/ \E p \in CatalogIds : currentProfile.cart.items = <<>> /\ Step(AddToCart(p, 1))
    \/ Abandon(ClearCart(TRUE))

SpecAbandon == Init /\ [][NextAbandon]_vars

\* SpecTrack: trackAction called again and again, in both variants.  The clock
\* ticks at every call, so timestamp numbers the events.
Tracked(A) ==
    /\ A
    /\ now < EVENTS_MAX + ExtraCalls
    /\ now' = now + 1
    /\ UNCHANGED <<ops, store>>

NextTrack == Tracked(TrackAction("click"))

SpecTrack == Init /\ [][NextTrack]_vars

\* SpecHistory: a guest who browses and then signs in.  The account is a returning
\* customer's: its document, when it has one, holds the product views of earlier
\* visits, PRODUCT_VIEWS_MAX of them.
StoredProductViews ==
    [i \in 1..PRODUCT_VIEWS_MAX |-> [product_id |-> "sku-1", timestamp |-> 0]]

InitHistory ==
    /\ variant = "firebase"
    /\ now = 0
    /\ authUser = None
    /\ accounts = Users
    /\ hac = HacIdle
    /\ conv = ConvIdle
    /\ lastDone = None
    /\ ops = 0
    /\ batchUpdateScheduled = FALSE
    /\ timersArmed = 0
    /\ timerWrites = NoWrites
    /\ localCart = <<>>
    /\ checkout = CheckoutIdle
    /\ boot = Booted
    /\ twin = NoDoc
    /\ fm = FmSame
    /\ authWait = WaitOver
    /\ owner = None
    /\ currentProfile = createBaseProfile(GuestId, "guest")
    /\ localGuest = currentProfile
    /\ offlineStore = NoDoc
    /\ \E stored \in BOOLEAN :
         remote = [id \in DocIds |->
                     IF id = GuestId THEN currentProfile
                     ELSE IF stored
                          THEN [createBaseProfile(id, "registered") EXCEPT
                                   !.product_views = StoredProductViews]
                          ELSE NoDoc]

NextHistory ==
    \/ Call(TrackAction("click"))
    \/ Call(TrackPageView("home"))
    \/ Call(TrackProductView("sku-1"))
    \/ Debounce
    \/ Identity

SpecHistory == InitHistory /\ [][NextHistory]_vars

----------------------------------------------------------------------------
(* Properties *)

UniqueProductIds(items) ==
    \A i, j \in 1..Len(items) : i # j => items[i].product_id # items[j].product_id

\* the variant's addToCart
AddedToCart(profile, productId, quantity) ==
    IF variant = "firebase" THEN addToCart(profile, productId, quantity)
    ELSE offlineAddToCart(profile, productId, quantity)

\* C1: in every state reached by cart operations, purchases, sign-in merges and
\* guest conversions no two lines of the current cart have the same product_id,
\* and addToCart(p, 1) called twice on a cart without p leaves the cart with one
\* more line, for p, of quantity 2.
C1_CartLinesUnique ==
    /\ UniqueProductIds(currentProfile.cart.items)
    /\ \A p \in ProductIds :
          FindProduct(currentProfile.cart.items, p) = 0 =>
            AddedToCart(AddedToCart(currentProfile, p, 1), p, 1).cart.items =
              Append(currentProfile.cart.items, [product_id |-> p, quantity |-> 2])

\* a sign-in merge has delivered a cart whose line was added twice
C1_Witness ==
    /\ lastDone = "signin"
    /\ \E i \in 1..Len(currentProfile.cart.items) :
          currentProfile.cart.items[i].quantity = 2

\* what the catalog says a cart is worth: per catalog product, its price times
\* the quantities of the lines that name it
RECURSIVE QuantityOf(_, _)
QuantityOf(items, productId) ==
    IF items = <<>> THEN 0
    ELSE (IF Head(items).product_id = productId THEN Head(items).quantity ELSE 0)
         + QuantityOf(Tail(items), productId)

CatalogTotal(items) ==
    SumSeq([i \in 1..Len(products) |-> products[i].price * QuantityOf(items, products[i].id)])

\* C2: after every sequence of addToCart, removeFromCart, updateCartQuantity and
\* clearCart, cart.total is the sum of catalog price times quantity over the
\* lines whose product is in the catalog; the other lines contribute 0.
C2_TotalIsCatalogSum ==
    currentProfile.cart.total = CatalogTotal(currentProfile.cart.items)

\* a cart with a line of quantity 2, a second catalog line and a line whose product
\* left the catalog
C2_Witness ==
    /\ Len(currentProfile.cart.items) = 3
    /\ currentProfile.cart.total = 2 * 999 + 2500

\* C3: once a sign-out has completed (no conversion running) the current profile
\* is a guest profile with an empty cart.
C3_SignOutGivesEmptyGuest ==
    lastDone = "signout" /\ conv = ConvIdle =>
        /\ currentProfile.type = "guest"
        /\ currentProfile.cart.items = <<>>

\* C4: once convertGuestToRegistered has succeeded (its delete of the guest
\* document included) the current profile is registered under the new identity
\* and names the guest it came from, the Remote Profile Store holds a document
\* under the new id and none under the guest id, and the Local Cache entry of the
\* guest session is gone.
C4_ConversionPostconditions ==
    lastDone = "converted" =>
        /\ currentProfile.type = "registered"
        /\ currentProfile.id \in Users
        /\ currentProfile.converted_from_guest = GuestId
        /\ remote[currentProfile.id] # NoDoc
        /\ remote[GuestId] = NoDoc
        /\ localGuest = NoDoc

\* a step of a conversion whose account creation fails: the call, and the catch
ConvertFailingStep ==
    \/ conv.pc = "idle" /\ conv'.pc = "create" /\ ~conv'.ok
    \/ conv.pc = "create" /\ ~conv.ok /\ conv'.pc = "idle"

\* C5: when account creation fails, convertGuestToRegistered throws to its caller
\* and none of its steps changes the current profile, the Remote Profile Store or
\* the Local Cache.
C5_FailedCreateMutatesNothing ==
    [][ConvertFailingStep =>
          /\ UNCHANGED <<currentProfile, remote, localGuest, offlineStore>>
          /\ conv'.pc = "idle" => lastDone' = "convert_create_failed"]_vars

\* a conversion of a guest with a cart has failed at account creation
C5_Witness ==
    /\ lastDone = "convert_create_failed"
    /\ currentProfile.type = "guest"
    /\ currentProfile.cart.items # <<>>
    /\ localGuest # NoDoc

\* C6: the profile a merge produces carries the guest cart when the guest cart has
\* a line, and the registered profile's own cart when it has none.
C6_MergeCartRule ==
    hac.guest # NoDoc =>
        hac.profile.cart = IF Len(hac.guest.cart.items) >= 1
                           THEN hac.guest.cart
                           ELSE hac.loaded.cart

\* a merge has replaced a registered cart that had lines by a different guest cart
C6_Witness ==
    /\ hac.guest # NoDoc
    /\ hac.guest.cart.items # <<>>
    /\ hac.loaded.cart.items # <<>>
    /\ hac.loaded.cart # hac.guest.cart

WishlistIds(wishlist) == {wishlist[i].product_id : i \in 1..Len(wishlist)}

\* the variant's addToWishlist
AddedToWishlist(profile, productId) ==
    IF variant = "firebase" THEN addToWishlist(profile, productId)
    ELSE offlineAddToWishlist(profile, productId)

\* the guest entries a merge appends: those whose product the registered wishlist
\* does not name, in the guest's order
RECURSIVE NewEntries(_, _)
NewEntries(guestWishlist, registeredIds) ==
    IF guestWishlist = <<>> THEN <<>>
    ELSE (IF Head(guestWishlist).product_id \in registeredIds
          THEN <<>> ELSE <<Head(guestWishlist)>>)
         \o NewEntries(Tail(guestWishlist), registeredIds)

\* C7: in every state the wishlist names each product at most once and
\* addToWishlist of a product already on it changes nothing; the profile a merge
\* produces has the registered wishlist followed by the guest entries whose
\* product the registered wishlist did not name.
C7_WishlistUnique ==
    /\ Cardinality(WishlistIds(currentProfile.wishlist)) = Len(currentProfile.wishlist)
    /\ \A p \in WishlistIds(currentProfile.wishlist) :
          AddedToWishlist(currentProfile, p) = currentProfile
    /\ hac.guest # NoDoc =>
          /\ hac.profile.wishlist =
                hac.loaded.wishlist
                  \o NewEntries(hac.guest.wishlist, WishlistIds(hac.loaded.wishlist))
          /\ Cardinality(WishlistIds(hac.profile.wishlist)) = Len(hac.profile.wishlist)

\* registered [sku-1] and guest [sku-1, sku-2] have been merged into [sku-1, sku-2]
C7_Witness ==
    /\ hac.guest # NoDoc
    /\ hac.loaded.wishlist = <<[product_id |-> "sku-1"]>>
    /\ hac.guest.wishlist = <<[product_id |-> "sku-1"], [product_id |-> "sku-2"]>>
    /\ hac.profile.wishlist = <<[product_id |-> "sku-1"], [product_id |-> "sku-2"]>>

\* the variant's clearCart
Cleared(profile, t) ==
    IF variant = "firebase" THEN clearCart(profile, t) ELSE offlineClearCart(profile, t)

Min(a, b) == IF a <= b THEN a ELSE b

\* C8: clearCart of a cart with lines appends one snapshot of it to abandoned_carts
\* and empties the cart, clearCart of an empty cart appends nothing; after `now`
\* clears that found lines abandoned_carts holds the last Min(now, ABANDONED_MAX)
\* snapshots, oldest first.
C8_AbandonOnClear ==
    LET kept == currentProfile.abandoned_carts
        cleared == Cleared(currentProfile, now)
        after == cleared.abandoned_carts
    IN  /\ Len(kept) = Min(now, ABANDONED_MAX)
        /\ \A i \in 1..Len(kept) :
              /\ kept[i].abandoned_at = now - Len(kept) + i - 1
              /\ kept[i].items # <<>>
              /\ kept[i].total = CatalogTotal(kept[i].items)
        /\ cleared.cart.items = <<>>
        /\ IF currentProfile.cart.items = <<>>
           THEN after = kept
           ELSE /\ Len(after) = Min(Len(kept) + 1, ABANDONED_MAX)
                /\ after[Len(after)] = [items |-> currentProfile.cart.items,
                                        total |-> currentProfile.cart.total,
                                        abandoned_at |-> now]
                /\ \A i \in 1..(Len(after) - 1) :
                      after[i] = kept[Len(kept) - (Len(after) - 1) + i]

\* two snapshots have been dropped from a full abandoned_carts, and a cart with
\* lines is about to be cleared
C8_Witness ==
    /\ now = ABANDONED_MAX + 2
    /\ Len(currentProfile.abandoned_carts) = ABANDONED_MAX
    /\ currentProfile.abandoned_carts[1].abandoned_at = 2
    /\ currentProfile.cart.items # <<>>

\* C9: in every state the history buffers of the current profile are within their
\* bounds.
C9_BuffersBounded ==
    /\ Len(currentProfile.events) <= EVENTS_MAX
    /\ Len(currentProfile.page_views) <= PAGE_VIEWS_MAX
    /\ Len(currentProfile.product_views) <= PRODUCT_VIEWS_MAX
    /\ Len(currentProfile.abandoned_carts) <= ABANDONED_MAX

\* C10: after `now` consecutive trackAction calls on a profile without events,
\* analytics.events holds the last Min(now, EVENTS_MAX) events tracked, in the
\* order they were tracked.
C10_EventsAreMostRecent ==
    LET n == Min(now, EVENTS_MAX)
    IN  currentProfile.events =
          [i \in 1..n |-> [action |-> "click", timestamp |-> now - n + i - 1]]

\* more calls than the buffer holds: the two oldest events are gone
C10_Witness ==
    /\ now = EVENTS_MAX + 2
    /\ Len(currentProfile.events) = EVENTS_MAX
    /\ currentProfile.events[1].timestamp = 2

----------------------------------------------------------------------------
(* Write-through of a guest profile *)

\* the step is a mutating operation on the guest profile of the remote-backed
\* variant: memory changed, the profile is the same guest before and after
GuestMutation ==
    /\ variant = "firebase"
    /\ currentProfile.type = "guest"
    /\ currentProfile'.type = "guest"
    /\ currentProfile'.id = currentProfile.id
    /\ currentProfile' # currentProfile

\* C11: in the remote-backed variant, when a mutating operation on a guest profile
\* returns, the Local Cache entry of the guest holds the mutated profile, whatever
\* the debounced write has done
C11_GuestWriteThrough ==
    [][GuestMutation => localGuest' = currentProfile']_vars

----------------------------------------------------------------------------
(* The storefront page: ProfileAwareCartManager, the auth listener's re-sync and *)
(* proceedToCheckout                                                            *)

\* products.find(p => p.id === productId), as an index (0: undefined)
FindInCatalog(productId) ==
    IF \E i \in 1..Len(products) : products[i].id = productId
    THEN CHOOSE i \in 1..Len(products) : products[i].id = productId
    ELSE 0

\* localCart.find(item => item.id === productId), as an index (0: undefined)
FindLocal(cart, productId) ==
    IF \E i \in 1..Len(cart) : cart[i].id = productId
    THEN CHOOSE i \in 1..Len(cart) :
            /\ cart[i].id = productId
            /\ \A j \in 1..(i - 1) : cart[j].id # productId
    ELSE 0

\* an entry of the Cart Projection: {...product, quantity}
Entry(productId, quantity) ==
    LET product == products[FindInCatalog(productId)]
    IN  [id |-> product.id, price |-> product.price, quantity |-> quantity]

\* ProfileAwareCartManager.syncWithProfile: the join of the profile's cart lines
\* with the catalog, lines that do not resolve dropped
syncWithProfile(profile) ==
    LET Resolves(item) == FindInCatalog(item.product_id) # 0
        kept == SelectSeq(profile.cart.items, Resolves)
    IN  [i \in 1..Len(kept) |-> Entry(kept[i].product_id, kept[i].quantity)]

\* the part of ProfileAwareCartManager.addToCart after the manager's call
cartManagerAddToCart(cart, productId, quantity) ==
    LET i == FindLocal(cart, productId)
    IN  IF FindInCatalog(productId) = 0 THEN cart
        ELSE IF i # 0 THEN [cart EXCEPT ![i].quantity = @ + quantity]
        ELSE Append(cart, Entry(productId, quantity))

\* the part of ProfileAwareCartManager.removeFromCart after the manager's call
cartManagerRemoveFromCart(cart, productId) ==
    LET Keep(item) == item.id # productId
    IN  SelectSeq(cart, Keep)

\* what the steps of the Profile Manager and the Identity Provider leave alone
page == <<now, ops, checkout, boot, twin, fm, authWait, owner>>

\* the page has not been left for the payment page
OnPage == checkout.pc # "left"

\* a step on the page that is no call of a cart operation
PageStep(A) == OnPage /\ A /\ UNCHANGED page

\* a cart operation called on the page, within the run's budget
PageCall(A) ==
    /\ OnPage
    /\ A
    /\ ops < MaxOps
    /\ ops' = ops + 1
    /\ UNCHANGED <<now, checkout, boot, twin, fm, authWait, owner>>

CartManagerAddToCart(productId, quantity) ==
    /\ AddToCart(productId, quantity)
    /\ localCart' = cartManagerAddToCart(localCart, productId, quantity)

CartManagerRemoveFromCart(productId) ==
    /\ RemoveFromCart(productId)
    /\ localCart' = cartManagerRemoveFromCart(localCart, productId)

\* ProfileAwareCartManager.updateQuantity: the manager's updateCartQuantity, then,
\* for a quantity of 0 and an entry in the projection, its own removeFromCart,
\* which calls the manager's removeFromCart once more
CartManagerUpdateQuantity(productId, quantity) ==
    LET inProfile == FindProduct(currentProfile.cart.items, productId) # 0
        i == FindLocal(localCart, productId)
        again == i # 0 /\ quantity <= 0
    IN  /\ IF inProfile \/ again
           THEN Apply(IF again
                      THEN removeFromCart(
                             updateCartQuantity(currentProfile, productId, quantity),
                             productId)
                      ELSE updateCartQuantity(currentProfile, productId, quantity),
                      IF again
                      THEN offlineRemoveFromCart(
                             offlineUpdateCartQuantity(currentProfile, productId, quantity),
                             productId)
                      ELSE offlineUpdateCartQuantity(currentProfile, productId, quantity))
           ELSE UNCHANGED <<variant, currentProfile, remote, localGuest, offlineStore,
                            batchUpdateScheduled, timersArmed, timerWrites, authUser,
                            accounts, hac, conv, lastDone>>
        /\ localCart' = IF i = 0 THEN localCart
                        ELSE IF quantity <= 0
                        THEN cartManagerRemoveFromCart(localCart, productId)
                        ELSE [localCart EXCEPT ![i].quantity = quantity]

CartManagerClearCart(more) ==
    /\ ClearCart(more)
    /\ localCart' = <<>>

\* handleAuthChange(user) has nothing to do and returns at once
ReturnsAtOnce(user) ==
    /\ ~(user # None /\ currentProfile.type = "guest")
    /\ ~(user = None /\ currentProfile.type = "registered")

\* the listener of setupAuthStateListener after handleAuthChange has returned:
\* window.cartManager.syncWithProfile()
ListenerSync == localCart' = syncWithProfile(currentProfile')

\* an identity change on the page: the listener re-syncs at once when
\* handleAuthChange returns at once
PageIdentityChange(A, user) ==
    /\ A
    /\ IF ReturnsAtOnce(user) THEN ListenerSync ELSE UNCHANGED localCart

\* proceedToCheckout: with an empty projection it returns; else createCheckoutSession
\* (production path) calls logCheckoutToFirebase and so FirebaseManager.logOrder,
\* which adds the order document and waits
ProceedToCheckout ==
    /\ checkout.pc = "idle"
    /\ Len(localCart) > 0
    /\ Len(currentProfile.purchase_history) < MaxPurchases
    /\ \E outcome \in {"added", "failed"} :
         checkout' = [pc |-> "log", outcome |-> outcome]
    /\ lastDone' = None
    /\ UNCHANGED <<variant, currentProfile, remote, localGuest, offlineStore,
                   batchUpdateScheduled, timersArmed, timerWrites, authUser, accounts,
                   hac, conv, now, ops, localCart, boot, twin, fm, authWait, owner>>

\* logOrder: the order document was added; profileManager.addPurchase records the
\* order and clears the cart; createCheckoutSession goes on to redirectToCheckout
CheckoutOrderLogged ==
    /\ checkout.pc = "log"
    /\ checkout.outcome = "added"
    /\ Apply(addPurchase(currentProfile, "order", now),
             offlineAddPurchase(currentProfile, "order", now))
    /\ \E outcome \in {"left", "error"} :
         checkout' = [pc |-> "redirect", outcome |-> outcome]
    /\ UNCHANGED <<now, ops, localCart, boot, twin, fm, authWait, owner>>

\* logOrder: adding the order document failed; the error reaches proceedToCheckout,
\* which notifies the customer
CheckoutLogFailed ==
    /\ checkout.pc = "log"
    /\ checkout.outcome = "failed"
    /\ checkout' = CheckoutIdle
    /\ lastDone' = "checkout_failed"
    /\ UNCHANGED <<variant, currentProfile, remote, localGuest, offlineStore,
                   batchUpdateScheduled, timersArmed, timerWrites, authUser, accounts,
                   hac, conv, now, ops, localCart, boot, twin, fm, authWait, owner>>

\* redirectToCheckout returned an error: it is thrown to proceedToCheckout, which
\* notifies the customer
CheckoutRedirectFailed ==
    /\ checkout.pc = "redirect"
    /\ checkout.outcome = "error"
    /\ checkout' = CheckoutIdle
    /\ lastDone' = "checkout_failed"
    /\ UNCHANGED <<variant, currentProfile, remote, localGuest, offlineStore,
                   batchUpdateScheduled, timersArmed, timerWrites, authUser, accounts,
                   hac, conv, now, ops, localCart, boot, twin, fm, authWait, owner>>

\* redirectToCheckout navigates to the payment page: this page is left
CheckoutRedirected ==
    /\ checkout.pc = "redirect"
    /\ checkout.outcome = "left"
    /\ checkout' = [pc |-> "left", outcome |-> None]
    /\ lastDone' = None
    /\ UNCHANGED <<variant, currentProfile, remote, localGuest, offlineStore,
                   batchUpdateScheduled, timersArmed, timerWrites, authUser, accounts,
                   hac, conv, now, ops, localCart, boot, twin, fm, authWait, owner>>

Checkout ==
    \/ OnPage /\ ProceedToCheckout
    \/ CheckoutOrderLogged
    \/ CheckoutLogFailed
    \/ CheckoutRedirectFailed
    \/ CheckoutRedirected

\* sign-in and sign-out on the page
PageIdentity ==
    \/ \E u \in Users : PageStep(PageIdentityChange(SignIn(u), u))
    \/ PageStep(PageIdentityChange(SignOut, None))
    \/ PageStep(LoadRegisteredFailed /\ UNCHANGED localCart)
    \/ PageStep(LoadRegisteredFound /\ UNCHANGED localCart)
    \/ PageStep(LoadRegisteredMissing /\ UNCHANGED localCart)
    \/ PageStep(CreateRegisteredSet /\ UNCHANGED localCart)
    \/ PageStep(CreateRegisteredFailed /\ UNCHANGED localCart)
    \/ PageStep(HandleAuthChangeReturn /\ ListenerSync)

\* SpecStore: the page.  The cart is changed through the cart manager, the customer
\* checks out, signs in and out; the clock is frozen and the debounce timer the
\* first operation arms stays armed.  The page has a cart manager only when
\* FirebaseManager.initialize succeeded, so the manager is the remote-backed one.
InitStore == Init /\ variant = "firebase"

NextStore ==
    \/ \E p \in ProductIds : PageCall(CartManagerAddToCart(p, 1))
    \/ \E p \in ProductIds : PageCall(CartManagerRemoveFromCart(p))
    \/ \E p \in ProductIds, q \in 0..MaxQty : PageCall(CartManagerUpdateQuantity(p, q))
    \/ PageCall(CartManagerClearCart(Len(currentProfile.abandoned_carts) < MaxClears))
    \/ Checkout
    \/ PageIdentity

SpecStore == InitStore /\ [][NextStore]_vars

\* C12: the checkout flow calls addPurchase only once the gateway has confirmed
\* success: as long as the checkout has not got the gateway's answer, its steps leave
\* cart and purchase history of the profile as they were
C12_PurchaseOnlyAfterConfirmation ==
    [][(checkout.pc = "log" /\ checkout'.pc = "redirect")
          => /\ currentProfile'.cart = currentProfile.cart
             /\ currentProfile'.purchase_history = currentProfile.purchase_history]_vars

\* no cart operation, checkout or identity transition is in progress
PageQuiet ==
    /\ checkout.pc = "idle"
    /\ hac.pc = "idle"
    /\ conv.pc = "idle"

\* C13: whenever no cart operation, checkout or identity transition is in progress,
\* the Cart Projection is the join of the profile's cart lines with the catalog
C13_ProjectionIsJoin ==
    PageQuiet => localCart = syncWithProfile(currentProfile)

----------------------------------------------------------------------------
(* Application startup: initializeApp, FirebaseManager.initialize and the       *)
(* managers' initializeProfile                                                  *)

\* what earlier visits of this browser session left in the stores
StoredGuest == addToCart(createBaseProfile(GuestId, "guest"), "sku-1", 1)
StoredOffline == addToCart(createBaseProfile("profile_1", "guest"), "sku-1", 1)
StoredRegistered(uid) == addToCart(createBaseProfile(uid, "registered"), "sku-2", 1)

\* FirebaseProfileManager.createFallbackProfile
createFallbackProfile == createBaseProfile("fallback_0", "guest")

\* a profile as createBaseProfile makes it, of type guest
FreshGuest(profile) ==
    /\ profile # NoDoc
    /\ profile = createBaseProfile(profile.id, "guest")

\* The page is loaded.  The Local Cache works or every localStorage call throws
\* for the whole startup (sessionStorage, which holds the session id, works); a
\* cache that throws holds nothing the code can read.  The customer may be signed
\* in from an earlier visit.
InitBoot ==
    /\ variant = None
    /\ now = 0
    /\ currentProfile = NoDoc
    /\ accounts \in SUBSET Users
    /\ authUser \in {None} \cup accounts
    /\ hac = HacIdle
    /\ conv = ConvIdle
    /\ lastDone = None
    /\ ops = 0
    /\ batchUpdateScheduled = FALSE
    /\ timersArmed = 0
    /\ timerWrites = NoWrites
    /\ localCart = <<>>
    /\ checkout = CheckoutIdle
    /\ twin = NoDoc
    /\ fm = FmNull
    /\ authWait = WaitUnset
    /\ owner = None
    /\ boot \in {[pc |-> "start", cache |-> c, failure |-> None] : c \in {"ok", "fails"}}
    /\ localGuest \in (IF boot.cache = "ok" THEN {NoDoc, StoredGuest} ELSE {NoDoc})
    /\ offlineStore \in (IF boot.cache = "ok" THEN {NoDoc, StoredOffline} ELSE {NoDoc})
    /\ \E stored \in BOOLEAN :
         remote = [id \in DocIds |->
                     IF id = GuestId THEN localGuest
                     ELSE IF id \in accounts /\ stored THEN StoredRegistered(id)
                     ELSE NoDoc]

\* the catch block of FirebaseManager.initialize: the OfflineProfileManager is
\* installed, its initializeProfile loads offline_profile or, when there is none or
\* the cache throws, creates a profile (saved unless the cache throws); then the
\* error is thrown on to initializeApp, whose catch block notifies the customer and
\* ends the startup
FallBackToOffline(failure) ==
    /\ variant' = "offline"
    /\ currentProfile' = IF boot.cache = "ok" /\ offlineStore # NoDoc
                         THEN [offlineStore EXCEPT !.updated_at = now]
                         ELSE createBaseProfile("profile_1", "guest")
    /\ offlineStore' = IF boot.cache = "ok" THEN currentProfile' ELSE offlineStore
    /\ fm' = FmSame
    /\ boot' = [boot EXCEPT !.pc = "aborted", !.failure = failure]

\* FirebaseManager.initialize up to the await of waitForInitialAuthState: the SDK
\* calls succeed, the FirebaseProfileManager is installed and the wait sets its
\* timer and subscribes its listener, or one of the SDK calls throws
initialize ==
    /\ boot.pc = "start"
    /\ \E sdk \in BOOLEAN :
         IF sdk
         THEN /\ variant' = "firebase"
              /\ boot' = [boot EXCEPT !.pc = "auth"]
              /\ authWait' = WaitArmed
              /\ UNCHANGED <<currentProfile, offlineStore, fm>>
         ELSE /\ FallBackToOffline("sdk")
              /\ UNCHANGED authWait
    /\ UNCHANGED <<now, remote, localGuest, batchUpdateScheduled, timersArmed,
                   timerWrites, authUser, accounts, hac, conv, lastDone, ops,
                   localCart, checkout, twin, owner>>

\* FirebaseManager.initialize resumes after the wait: initializeProfile runs up to
\* its first remote call; user is auth.currentUser
initializeProfile(user) ==
    IF user # None
    THEN /\ \E ok \in BOOLEAN :
              hac' = [HacIdle EXCEPT !.pc = "lr_get", !.user = user, !.ok = ok]
         /\ boot' = [boot EXCEPT !.pc = "profile"]
         /\ UNCHANGED <<currentProfile, remote, localGuest>>
    ELSE IF boot.cache = "fails"
    THEN /\ currentProfile' = createFallbackProfile
         /\ boot' = [boot EXCEPT !.pc = "returned", !.failure = "cache"]
         /\ UNCHANGED <<hac, remote, localGuest>>
    ELSE /\ loadGuestProfile
         /\ boot' = [boot EXCEPT !.pc = "profile"]
         /\ UNCHANGED currentProfile

\* resolve(value) of the wait's promise: initialize resumes if it is still waiting
resolveWait(user) ==
    /\ IF boot.pc = "auth"
       THEN initializeProfile(user)
       ELSE UNCHANGED <<currentProfile, remote, localGuest, hac, boot>>
    /\ UNCHANGED <<variant, now, offlineStore, batchUpdateScheduled, timersArmed,
                   timerWrites, authUser, accounts, conv, lastDone, ops, localCart,
                   checkout, twin, fm, owner>>

\* the provider reports the identity state to the wait's listener, which clears the
\* timer, unsubscribes and resolves with the user; auth.currentUser is that user
AuthStateReported ==
    /\ authWait.subscribed
    /\ authWait' = [timer |-> "cleared", subscribed |-> FALSE,
                    resolved |-> authWait.resolved + 1]
    /\ resolveWait(authUser)

\* a timeout callback that unsubscribes and does not resolve
AuthStateTimedOut_silent ==
    /\ authWait.timer = "armed"
    /\ authWait' = [authWait EXCEPT !.timer = "fired", !.subscribed = FALSE]
    /\ UNCHANGED <<variant, now, currentProfile, remote, localGuest, offlineStore,
                   batchUpdateScheduled, timersArmed, timerWrites, authUser, accounts,
                   hac, conv, lastDone, ops, localCart, checkout, boot, twin, fm,
                   owner>>

\* the wait's timer fires before the provider has reported: its callback
\* unsubscribes the listener and resolves with null; auth.currentUser is still null
AuthStateTimedOut ==
    /\ authWait.timer = "armed"
    /\ authWait' = [timer |-> "fired", subscribed |-> FALSE,
                    resolved |-> authWait.resolved + 1]
    /\ resolveWait(None)

\* a catch block that hands the error on and leaves no profile
initializeProfileCatch_rethrow ==
    /\ boot.pc = "profile"
    /\ hac.pc \in {"lr_get", "cr_set"}
    /\ ~hac.ok
    /\ hac' = HacIdle
    /\ boot' = [boot EXCEPT !.pc = "returned", !.failure = "remote"]
    /\ UNCHANGED <<variant, now, currentProfile, remote, localGuest, offlineStore,
                   batchUpdateScheduled, timersArmed, timerWrites, authUser, accounts,
                   conv, lastDone, ops, localCart, checkout, twin, fm, authWait, owner>>

\* FirebaseProfileManager.initializeProfile, catch block: loadRegisteredProfile
\* threw (its read or createRegisteredProfile's set failed)
initializeProfileCatch ==
    /\ boot.pc = "profile"
    /\ hac.pc \in {"lr_get", "cr_set"}
    /\ ~hac.ok
    /\ currentProfile' = createFallbackProfile
    /\ hac' = HacIdle
    /\ boot' = [boot EXCEPT !.pc = "returned", !.failure = "remote"]
    /\ UNCHANGED <<variant, now, remote, localGuest, offlineStore,
                   batchUpdateScheduled, timersArmed, timerWrites, authUser, accounts,
                   conv, lastDone, ops, localCart, checkout, twin, fm, authWait, owner>>

\* FirebaseProfileManager.initializeProfile: the profile was loaded
initializeProfileReturn ==
    /\ boot.pc = "profile"
    /\ \/ hac.pc \in {"lr_wait", "lg_sync", "lg_set"}
       \/ hac.pc = "cr_set" /\ hac.ok
    /\ currentProfile' = hac.profile
    /\ hac' = HacIdle
    /\ boot' = [boot EXCEPT !.pc = "returned"]
    /\ UNCHANGED <<variant, now, remote, localGuest, offlineStore,
                   batchUpdateScheduled, timersArmed, timerWrites, authUser, accounts,
                   conv, lastDone, ops, localCart, checkout, twin, fm, authWait, owner>>

\* FirebaseManager.initialize after initializeProfile (whose result it assigns to
\* its own currentProfile): without a profile it throws
\* into its catch block; else it returns and initializeApp creates the cart
\* manager, whose syncWithProfile joins the cart with a catalog that is still
\* empty (loadProducts runs later)
initializeApp ==
    /\ boot.pc = "returned"
    /\ IF currentProfile = NoDoc
       THEN /\ FallBackToOffline("no_profile")
            /\ UNCHANGED localCart
       ELSE /\ localCart' = <<>>
            /\ fm' = FmSame
            /\ boot' = [boot EXCEPT !.pc = "started"]
            /\ UNCHANGED <<variant, currentProfile, offlineStore>>
    /\ UNCHANGED <<now, remote, localGuest, batchUpdateScheduled, timersArmed,
                   timerWrites, authUser, accounts, hac, conv, lastDone, ops,
                   checkout, twin, authWait, owner>>

\* SpecBoot: the startup of the page, up to the storefront or the failure notice
NextBoot ==
    \/ initialize
    \/ AuthStateReported
    \/ AuthStateTimedOut
    \/ Step(LoadRegisteredFound)
    \/ Step(LoadRegisteredMissing)
    \/ Step(CreateRegisteredSet)
    \/ initializeProfileCatch
    \/ initializeProfileReturn
    \/ initializeApp

SpecBoot == InitBoot /\ [][NextBoot]_vars

\* initializeProfile has returned (the OfflineProfileManager's, when startup was
\* aborted)
InitializeProfileReturned == boot.pc \in {"returned", "started", "aborted"}

C15_InitFailureNotSurfaced ==
    (InitializeProfileReturned /\ boot.failure \in {"sdk", "remote"})
       => /\ variant = "offline"
          /\ currentProfile # NoDoc
          /\ boot.pc # "aborted"

----------------------------------------------------------------------------
(* The two managers side by side *)

\* calls explored in one run of SpecEquiv
MaxEquivOps == 4

\* both managers hold the same fresh profile
InitEquiv ==
    /\ variant = "firebase"
    /\ now = 0
    /\ authUser = None
    /\ accounts = {}
    /\ hac = HacIdle
    /\ conv = ConvIdle
    /\ lastDone = None
    /\ ops = 0
    /\ batchUpdateScheduled = FALSE
    /\ timersArmed = 0
    /\ timerWrites = NoWrites
    /\ localCart = <<>>
    /\ checkout = CheckoutIdle
    /\ boot = Booted
    /\ currentProfile = createBaseProfile(GuestId, "guest")
    /\ twin = currentProfile
    /\ fm = FmSame
    /\ authWait = WaitOver
    /\ owner = None
    /\ localGuest = currentProfile
    /\ offlineStore = NoDoc
    /\ remote = [id \in DocIds |-> IF id = GuestId THEN currentProfile ELSE NoDoc]

\* one call, made on the FirebaseProfileManager (A) and on the
\* OfflineProfileManager (whose profile becomes offlineResult)
Both(A, offlineResult) ==
    /\ A
    /\ twin' = offlineResult
    /\ ops < MaxEquivOps
    /\ ops' = ops + 1
    /\ UNCHANGED <<now, localCart, checkout, boot, fm, authWait, owner>>

\* SpecEquiv: every sequence of MaxEquivOps calls, the clock frozen.  A call that
\* returns at once in the FirebaseProfileManager (updateCartQuantity without the
\* line, addToWishlist of a listed product) is no step.
NextEquiv ==
    \/ \E p \in ProductIds : Both(AddToCart(p, 1), offlineAddToCart(twin, p, 1))
    \/ \E p \in ProductIds : Both(RemoveFromCart(p), offlineRemoveFromCart(twin, p))
    \/ \E p \in ProductIds, q \in 0..MaxQty :
          Both(UpdateCartQuantity(p, q), offlineUpdateCartQuantity(twin, p, q))
    \/ Both(ClearCart(TRUE), offlineClearCart(twin, now))
    \/ \E p \in CatalogIds : Both(AddToWishlist(p), offlineAddToWishlist(twin, p))
    \/ \E p \in CatalogIds : Both(RemoveFromWishlist(p), offlineRemoveFromWishlist(twin, p))
    \/ Both(AddPurchase("order", TRUE), offlineAddPurchase(twin, "order", now))
    \/ Both(TrackAction("click"), offlineTrackAction(twin, "click", now))
    \/ Both(TrackPageView("home"), offlineTrackPageView(twin, "home", now))
    \/ \E p \in CatalogIds :
          Both(TrackProductView(p), offlineTrackProductView(twin, p, now))

SpecEquiv == InitEquiv /\ [][NextEquiv]_vars

\* C16: given the same calls from equal profiles, the remote-backed manager and
\* the no-remote manager hold equal profiles (cart, wishlist, purchase history,
\* abandoned carts, history buffers)
C16_ManagersAgree == twin = currentProfile

\* both managers after a line was added, a product wished for, an action tracked
\* and the order recorded
C16_Witness ==
    /\ ops = MaxEquivOps
    /\ twin = currentProfile
    /\ Len(currentProfile.purchase_history) = 1
    /\ Len(currentProfile.abandoned_carts) = 1
    /\ Len(currentProfile.wishlist) = 1
    /\ Len(currentProfile.events) = 1

----------------------------------------------------------------------------
(* The registered profile and the authenticated identity *)

\* C17: whenever the current profile is a registered one and no identity
\* transition is in progress, its id is the identifier of the identity that is
\* authenticated at the Identity Provider
C17_RegisteredIdIsIdentity ==
    (currentProfile.type = "registered" /\ hac.pc = "idle" /\ conv.pc = "idle")
       => currentProfile.id = authUser

----------------------------------------------------------------------------
(* The profile's updated_at *)

\* calls explored in one run of SpecClock
MaxTicks == 3

\* the state after construction, a tick of the clock later
InitClock ==
    /\ variant \in {"firebase", "offline"}
    /\ now = 1
    /\ authUser = None
    /\ accounts = {}
    /\ hac = HacIdle
    /\ conv = ConvIdle
    /\ lastDone = None
    /\ ops = 0
    /\ batchUpdateScheduled = FALSE
    /\ timersArmed = 0
    /\ timerWrites = NoWrites
    /\ localCart = <<>>
    /\ checkout = CheckoutIdle
    /\ boot = Booted
    /\ twin = NoDoc
    /\ fm = FmSame
    /\ authWait = WaitOver
    /\ owner = None
    /\ IF variant = "firebase"
       THEN /\ currentProfile =
                  [createBaseProfile(GuestId, "guest") EXCEPT !.updated_at = 0]
            /\ localGuest = currentProfile
            /\ offlineStore = NoDoc
            /\ remote = [id \in DocIds |->
                          IF id = GuestId THEN currentProfile ELSE NoDoc]
       ELSE /\ currentProfile =
                  [createBaseProfile("profile_1", "guest") EXCEPT !.updated_at = 0]
            /\ localGuest = NoDoc
            /\ offlineStore = currentProfile
            /\ remote = [id \in DocIds |-> NoDoc]

\* a call of a mutating operation; the clock has moved on when the next is made
Ticked(A) ==
    /\ A
    /\ ops < MaxTicks
    /\ ops' = ops + 1
    /\ now' = now + 1
    /\ UNCHANGED store

\* SpecClock: the ten operations, in both variants, the clock ticking
NextClock ==
    \/ \E p \in CatalogIds : Ticked(AddToCart(p, 1))
    \/ \E p \in CatalogIds : Ticked(RemoveFromCart(p))
    \/ \E p \in CatalogIds, q \in 0..MaxQty : Ticked(UpdateCartQuantity(p, q))
    \/ Ticked(ClearCart(TRUE))
    \/ \E p \in CatalogIds : Ticked(AddToWishlist(p))
    \/ \E p \in CatalogIds : Ticked(RemoveFromWishlist(p))
    \/ Ticked(AddPurchase("order", TRUE))
    \/ Ticked(TrackAction("click"))
    \/ Ticked(TrackPageView("home"))
    \/ Ticked(TrackProductView("sku-1"))

SpecClock == InitClock /\ [][NextClock]_vars

\* C18: every mutating operation on the profile advances the profile's top-level
\* updated_at
C18_MutationAdvancesUpdatedAt ==
    [][ops' = ops + 1 => currentProfile'.updated_at > currentProfile.updated_at]_vars

----------------------------------------------------------------------------
(* The debounced write-back *)

\* debounced writes outstanding: timers armed and callbacks waiting for their
\* remote write
Outstanding == timersArmed + timerWrites.ok + timerWrites.failed

\* C19: per remote-backed manager at most one debounced write is outstanding, and
\* one is outstanding exactly while the pending-write flag is set: a mutation that
\* finds the flag set schedules nothing
C19_OneOutstandingWrite ==
    Outstanding = IF batchUpdateScheduled THEN 1 ELSE 0

\* two mutations in one debounce window: both lines are in memory, one timer is
\* armed and nothing has been written yet
C19_Witness ==
    /\ variant = "firebase"
    /\ ops = MaxOps
    /\ Len(currentProfile.cart.items) = 2
    /\ remote[currentProfile.id] # NoDoc
    /\ remote[currentProfile.id].cart.items = <<>>
    /\ timersArmed = 1
    /\ timerWrites = NoWrites

\* SpecDebounce: the remote-backed manager's cart operations and the debounce,
\* every remote write succeeding
InitDebounce == Init /\ variant = "firebase"

NextDebounce ==
    \/ \E p \in CatalogIds : Call(AddToCart(p, 1))
    \/ \E p \in CatalogIds : Call(RemoveFromCart(p))
    \/ \E p \in CatalogIds, q \in 0..MaxQty : Call(UpdateCartQuantity(p, q))
    \/ Call(ClearCart(Len(currentProfile.abandoned_carts) < MaxClears))
    \/ Step(TimerFire) /\ timerWrites'.failed = 0
    \/ Step(TimerWriteDone)

SpecDebounce == InitDebounce /\ [][NextDebounce]_vars

\* C20: once the mutations have stopped, every timer has fired and every remote
\* write has succeeded, the Remote Profile Store document of the current profile
\* equals the in-memory profile
C20_QuiescentRemoteEqualsMemory ==
    (Outstanding = 0 /\ ~batchUpdateScheduled)
       => remote[currentProfile.id] = currentProfile

----------------------------------------------------------------------------
(* Failure of the debounced write *)

\* the timer callback issued a write that succeeded
WriteIssued == timersArmed' < timersArmed /\ timerWrites'.ok > timerWrites.ok

\* the timer callback's catch block ran
WriteFailureCaught == timerWrites'.failed < timerWrites.failed

\* C21: a failed debounced write is logged and swallowed: the callback's catch
\* block leaves the in-memory profile, the Remote Profile Store and the Local Cache
\* as they were and clears the pending-write flag; the mutation that follows arms a
\* new timer, and the write a timer issues carries every field of the profile that
\* is current when it fires
C21_FailedWriteSwallowed ==
    [][/\ WriteFailureCaught =>
             /\ UNCHANGED <<currentProfile, remote, localGuest, hac, conv>>
             /\ ~batchUpdateScheduled'
             /\ lastDone' = "write_failed"
       /\ (lastDone = "write_failed" /\ ops' = ops + 1) =>
             /\ batchUpdateScheduled'
             /\ timersArmed' = timersArmed + 1
       /\ WriteIssued =>
             [remote'[currentProfile.id] EXCEPT
                 !.converted_from_guest = currentProfile.converted_from_guest]
               = currentProfile]_vars

\* a write of a guest's cart line has failed and was swallowed: the line is in
\* memory alone, the flag is clear and a further mutation can follow
C21_Witness ==
    /\ lastDone = "write_failed"
    /\ ~batchUpdateScheduled
    /\ ops < MaxOps
    /\ currentProfile.type = "guest"
    /\ currentProfile.cart.items # <<>>
    /\ remote[currentProfile.id].cart.items = <<>>
    /\ localGuest.cart.items = <<>>

----------------------------------------------------------------------------
(* FirebaseManager.currentProfile and the Profile Manager's currentProfile *)

\* The Profile Manager assigns a new object to its currentProfile and returns;
\* FirebaseManager still holds what it held until the continuation `next` of
\* the caller runs.  Nothing but resolved promises lies between the two, so the
\* continuation runs before any other task.
fmLeftBehind(next) ==
    fm' = IF fm.alias
          THEN [alias |-> FALSE, detached |-> currentProfile, pending |-> next]
          ELSE [fm EXCEPT !.pending = next]

\* a listener that does not read the Profile Manager's profile again
ListenerAssign_skip ==
    /\ fm.pending = "listener"
    /\ fm' = [fm EXCEPT !.pending = None]
    /\ UNCHANGED <<variant, currentProfile, remote, localGuest, offlineStore,
                   batchUpdateScheduled, timersArmed, timerWrites, authUser, accounts,
                   hac, conv, lastDone>>

\* the listener of setupAuthStateListener after handleAuthChange:
\* this.currentProfile = await this.profileManager.getCurrentProfile()
ListenerAssign ==
    /\ fm.pending = "listener"
    /\ fm' = FmSame
    /\ UNCHANGED <<variant, currentProfile, remote, localGuest, offlineStore,
                   batchUpdateScheduled, timersArmed, timerWrites, authUser, accounts,
                   hac, conv, lastDone>>

\* signUpUser after convertGuestToRegistered: this.currentProfile = updatedProfile,
\* the object the conversion has just made the Profile Manager's currentProfile
SignUpAssign ==
    /\ fm.pending = "signUpUser"
    /\ fm' = FmSame
    /\ UNCHANGED <<variant, currentProfile, remote, localGuest, offlineStore,
                   batchUpdateScheduled, timersArmed, timerWrites, authUser, accounts,
                   hac, conv, lastDone>>

\* an identity change reported to the listener: when handleAuthChange returns at
\* once the listener goes on to its assignment
ListenerCalled(A, user) ==
    /\ A
    /\ fm' = IF ReturnsAtOnce(user) THEN FmSame ELSE fm

\* a task of the FirebaseManager: it starts when no continuation is pending
ManagerStep(A) ==
    /\ fm.pending = None
    /\ A
    /\ UNCHANGED <<now, ops, localCart, checkout, boot, twin, authWait, owner>>

\* a continuation: it runs before any other task
ManagerContinues(A) ==
    /\ A
    /\ UNCHANGED <<now, ops, localCart, checkout, boot, twin, authWait, owner>>

\* a cart operation: the profile object is changed in place
ManagerCall(A) ==
    /\ fm.pending = None
    /\ A
    /\ ops < MaxOps
    /\ ops' = ops + 1
    /\ UNCHANGED <<now, localCart, checkout, boot, twin, fm, authWait, owner>>

\* SpecManager: sign-up of a guest, sign-in and sign-out through the
\* FirebaseManager and its listener, with cart operations between their steps;
\* the clock is frozen and the debounce timer the first operation arms stays armed.
InitManager == Init /\ variant = "firebase"

NextManager ==
    \/ \E p \in CatalogIds : ManagerCall(AddToCart(p, 1))
    \/ \E p \in CatalogIds : ManagerCall(RemoveFromCart(p))
    \/ \E u \in Users : ManagerStep(ListenerCalled(SignIn(u), u))
    \/ ManagerStep(ListenerCalled(SignOut, None))
    \/ \E u \in Users : ManagerStep(SignUp(u) /\ UNCHANGED fm)
    \/ ManagerStep(LoadRegisteredFailed /\ UNCHANGED fm)
    \/ ManagerStep(LoadRegisteredFound /\ UNCHANGED fm)
    \/ ManagerStep(LoadRegisteredMissing /\ UNCHANGED fm)
    \/ ManagerStep(CreateRegisteredSet /\ UNCHANGED fm)
    \/ ManagerStep(CreateRegisteredFailed /\ UNCHANGED fm)
    \/ ManagerStep(HandleAuthChangeReturn /\ fmLeftBehind("listener"))
    \/ ManagerContinues(ListenerAssign)
    \/ ManagerStep(ConvertCreateFailed /\ UNCHANGED fm)
    \/ ManagerStep(ConvertDeleteGuest /\ UNCHANGED fm)
    \/ ManagerStep(ConvertSetRegistered /\ UNCHANGED fm)
    \/ ManagerStep(ConvertSetFailed /\ UNCHANGED fm)
    \/ ManagerStep(ConvertFinish /\ fmLeftBehind("signUpUser"))
    \/ ManagerContinues(SignUpAssign)

SpecManager == InitManager /\ [][NextManager]_vars

\* C22: whenever no identity transition, conversion or continuation of one is in
\* progress, FirebaseManager.currentProfile is the object that is the Profile
\* Manager's currentProfile, however the steps of a guest conversion and of the
\* listener's handleAuthChange interleave
C22_OneAuthoritativeProfile ==
    (hac.pc = "idle" /\ conv.pc = "idle" /\ fm.pending = None) => fm.alias

\* a conversion has finished after the handleAuthChange call its sign-in event
\* started: both managers hold the conversion's profile
C22_Witness ==
    /\ lastDone = "converted"
    /\ hac.pc = "idle"
    /\ conv.pc = "idle"
    /\ fm = FmSame
    /\ currentProfile.type = "registered"
    /\ currentProfile.converted_from_guest = GuestId

----------------------------------------------------------------------------
(* Identity transitions and cart mutations *)

\* handleAuthChange waits for its last Remote Profile Store call: when it resumes
\* it assigns the profile it loaded to currentProfile
AboutToReplace ==
    \/ hac.pc \in {"lr_wait", "lg_sync", "lg_set"}
    \/ hac.pc = "cr_set" /\ hac.ok

\* C23: while handleAuthChange is suspended at a Remote Profile Store call and about
\* to replace the current profile, no mutating operation is applied to the profile
\* it will replace
C23_NoMutationOfOutgoingProfile ==
    [][(AboutToReplace /\ ops' = ops + 1) => currentProfile' = currentProfile]_vars

----------------------------------------------------------------------------
(* The sign-in merge and the two stores *)

\* the running handleAuthChange found guest data in the Local Cache and merged it
MergedGuestData == hac.pc \in {"lr_wait", "cr_merge", "cr_set"} /\ hac.guest # NoDoc

\* C24: once a sign-in merge that found guest data has issued its writes, the
\* guest's Local Cache entry is gone and the Remote Profile Store document of the
\* registered identity is the merged profile; and at no time is the guest data
\* removed from the Local Cache without the merged profile being in the Remote
\* Profile Store
C24_MergePersisted ==
    /\ (MergedGuestData /\ hac.pc # "cr_merge") =>
          /\ localGuest = NoDoc
          /\ remote[hac.user] = hac.profile
    /\ (MergedGuestData /\ localGuest = NoDoc) => remote[hac.user] = hac.profile

----------------------------------------------------------------------------
(* The startup wait for the identity state *)

\* SpecBootLive: the startup with its timer: once set, the timer of
\* waitForInitialAuthState fires unless it is cleared
SpecBootLive == SpecBoot /\ WF_vars(AuthStateTimedOut)

\* resolve was called at most once, and then the timer is off and the listener
\* unsubscribed; initializeProfile runs only after it; without an authenticated
\* identity, or after the timeout, initializeProfile returns a guest profile
WaitResolvedOnce ==
    /\ authWait.resolved <= 1
    /\ authWait.resolved = 1 => (authWait.timer # "armed" /\ ~authWait.subscribed)
    /\ (variant = "firebase" /\ boot.pc \in {"profile", "returned", "started"})
          => authWait.resolved = 1
    /\ (variant = "firebase" /\ boot.pc \in {"returned", "started"}
           /\ (authUser = None \/ authWait.timer = "fired"))
          => (currentProfile # NoDoc /\ currentProfile.type = "guest")

\* C25: the startup wait for the identity state always ends: its promise is
\* resolved exactly once, by the provider's first report or else by the timeout,
\* then initializeProfile runs, and without an authenticated identity it returns a
\* guest profile
C25_StartupWaitEnds ==
    /\ []WaitResolvedOnce
    /\ (boot.pc = "auth") ~> (boot.pc # "auth" /\ authWait.resolved = 1)

\* the provider never reported: the timeout ended the wait and the page started
\* with a guest profile
C25_Witness ==
    /\ authWait.timer = "fired"
    /\ authWait.resolved = 1
    /\ boot.pc = "started"
    /\ variant = "firebase"
    /\ currentProfile.type = "guest"

----------------------------------------------------------------------------
(* The guest cart at sign-in *)

\* SpecSignIn: a guest changes the cart and then signs in to an account that has a
\* document or has none; the debounce timer and its write run as they will.  No
\* cart operation is called once the identity has appeared.
InitSignIn ==
    /\ variant = "firebase"
    /\ now = 0
    /\ authUser = None
    /\ accounts = Users
    /\ hac = HacIdle
    /\ conv = ConvIdle
    /\ lastDone = None
    /\ ops = 0
    /\ batchUpdateScheduled = FALSE
    /\ timersArmed = 0
    /\ timerWrites = NoWrites
    /\ localCart = <<>>
    /\ checkout = CheckoutIdle
    /\ boot = Booted
    /\ twin = NoDoc
    /\ fm = FmSame
    /\ authWait = WaitOver
    /\ owner = None
    /\ currentProfile = createBaseProfile(GuestId, "guest")
    /\ localGuest = currentProfile
    /\ offlineStore = NoDoc
    /\ \E stored \in BOOLEAN :
         remote = [id \in DocIds |->
                     IF id = GuestId THEN currentProfile
                     ELSE IF stored THEN StoredRegistered(id) ELSE NoDoc]

NextSignIn ==
    \/ \E p \in CatalogIds : authUser = None /\ Call(AddToCart(p, 1))
    \/ \E p \in CatalogIds : authUser = None /\ Call(RemoveFromCart(p))
    \/ Debounce
    \/ \E u \in Users : Step(SignIn(u))
    \/ Step(LoadRegisteredFailed)
    \/ Step(LoadRegisteredFound)
    \/ Step(LoadRegisteredMissing)
    \/ Step(CreateRegisteredSet)
    \/ Step(CreateRegisteredFailed)
    \/ Step(HandleAuthChangeReturn)

SpecSignIn == InitSignIn /\ [][NextSignIn]_vars

\* C26: when an identity appears while a guest profile is current, the cart the
\* merge carries into the registered profile is the guest's in-memory cart (the
\* registered profile's own cart when the guest's is empty), whenever the last
\* mutation was made
C26_MergeCarriesMemoryCart ==
    (MergedGuestData /\ currentProfile.type = "guest") =>
        hac.profile.cart = IF Len(currentProfile.cart.items) > 0
                           THEN currentProfile.cart
                           ELSE hac.loaded.cart

----------------------------------------------------------------------------
(* The debounced write and the profile that scheduled it *)

\* the step arms the debounce timer: the profile mutated is the timer's owner
armedBy ==
    owner' = IF ~batchUpdateScheduled /\ batchUpdateScheduled'
             THEN currentProfile'.id ELSE owner

OwnedStep(A) ==
    /\ A
    /\ armedBy
    /\ UNCHANGED <<now, ops, localCart, checkout, boot, twin, fm, authWait>>

OwnedCall(A) ==
    /\ A
    /\ armedBy
    /\ ops < MaxOps
    /\ ops' = ops + 1
    /\ UNCHANGED <<now, localCart, checkout, boot, twin, fm, authWait>>

\* SpecOwner: cart operations, the debounce and sign-in and sign-out
InitOwner == Init /\ variant = "firebase"

NextOwner ==
    \/ \E p \in CatalogIds : OwnedCall(AddToCart(p, 1))
    \/ \E p \in CatalogIds : OwnedCall(RemoveFromCart(p))
    \/ OwnedStep(TimerFire)
    \/ OwnedStep(TimerWriteDone)
    \/ OwnedStep(TimerWriteFailed)
    \/ \E u \in Users : OwnedStep(SignIn(u))
    \/ OwnedStep(SignOut)
    \/ OwnedStep(LoadRegisteredFailed)
    \/ OwnedStep(LoadRegisteredFound)
    \/ OwnedStep(LoadRegisteredMissing)
    \/ OwnedStep(CreateRegisteredSet)
    \/ OwnedStep(CreateRegisteredFailed)
    \/ OwnedStep(HandleAuthChangeReturn)

SpecOwner == InitOwner /\ [][NextOwner]_vars

\* C27: the write a debounce timer issues goes to the Remote Profile Store document
\* of the profile whose mutation armed the timer, also when currentProfile was
\* replaced by an identity transition while the timer was armed
C27_WritePersistsItsProfile ==
    [][timersArmed' < timersArmed => currentProfile.id = owner]_vars

----------------------------------------------------------------------------
(* The guest conversion and the sign-in event it causes *)

\* convertGuestToRegistered has created the account and has not returned
ConversionRunning ==
    \/ conv.pc \in {"create", "delete"} /\ conv.ok
    \/ conv.pc = "set"

\* the conversion has returned its profile and no handleAuthChange call is running
ConvertedAndSettled ==
    /\ lastDone \in {"converted", "converted_guest_kept"}
    /\ hac.pc = "idle"

\* C28: while convertGuestToRegistered runs, no step of the handleAuthChange call
\* its sign-in event started changes the new identity's Remote Profile Store
\* document; and when the conversion has returned with no such call left running,
\* the stored document and currentProfile are the conversion's profile: both name
\* the guest they came from
C28_ConversionNotRaced ==
    [][/\ (ConversionRunning /\ hac' # hac) => remote'[conv.user] = remote[conv.user]
       /\ ConvertedAndSettled' =>
             /\ currentProfile'.converted_from_guest = GuestId
             /\ remote'[currentProfile'.id] # NoDoc
             /\ remote'[currentProfile'.id].converted_from_guest = GuestId]_vars

----------------------------------------------------------------------------
(* The guest entry of the Local Cache across the identity transitions *)

\* the profile is registered and no call, timer or write is in progress
RegisteredAtRest ==
    /\ variant = "firebase"
    /\ currentProfile.type = "registered"
    /\ hac.pc = "idle"
    /\ conv.pc = "idle"
    /\ Outstanding = 0

\* C29: whenever the current profile is registered and no operation is in
\* progress, the Local Cache holds no guest_profile_<session_id> entry
C29_NoGuestEntryWhenRegistered ==
    RegisteredAtRest => localGuest = NoDoc

----------------------------------------------------------------------------
(* Cart quantities under arbitrary integer arguments *)

\* how far below zero a caller's quantity and a cart line are driven
MaxBelowZero == 1

\* the quantities a caller passes
Quantities == (0 - MaxBelowZero)..MaxQty

\* SpecQty: addToCart, updateCartQuantity and removeFromCart called with any
\* quantity of Quantities, in both variants.  The timer the first operation arms
\* stays armed, as in SpecCart.
NextQty ==
    \/ \E p \in CatalogIds, q \in Quantities :
          /\ LineQuantity(currentProfile, p) + q >= 0 - MaxBelowZero
          /\ Step(AddToCart(p, q))
    \/ \E p \in CatalogIds, q \in Quantities : Step(UpdateCartQuantity(p, q))
    \/ \E p \in CatalogIds : Step(RemoveFromCart(p))

SpecQty == Init /\ [][NextQty]_vars

\* C30: every cart line has quantity at least 1 after any sequence of addToCart
\* and updateCartQuantity calls with integer quantities
C30_QuantityAtLeastOne ==
    \A i \in 1..Len(currentProfile.cart.items) :
        currentProfile.cart.items[i].quantity >= 1

====
